---- MODULE Spec2Model ----
(***************************************************************************)
(* Model of the multi-credential request dispatcher of codelens-ai:        *)
(*   - GeminiKeyManager and the /api/gemini handler   (src/api/gemini.ts)  *)
(*   - CacheManager, getCacheKey, fetchWithRetry and the facade functions  *)
(*     analyzeCode / generateTrace / askQuestion                           *)
(*                                         (src/services/geminiService.ts) *)
(*   - the status poll and handleAnalyze of the App component.             *)
(* JavaScript runs every synchronous stretch of code atomically, so one    *)
(* action is one stretch of code between two awaits.                       *)
(***************************************************************************)
EXTENDS Integers, Sequences, FiniteSets, TLC

\* ------------------------------------------------------------------ bounds
MaxKeys == 3        \* largest number of configured credentials explored
MaxSlots == 2       \* concurrent handler invocations
MaxUse == 4         \* cap on the number of key selections (keyUsage counts)
MaxE2EKeys == 2     \* largest number of credentials explored end to end
MaxRetries == 4      \* largest value of the retries parameter explored
MaxCalls == 2       \* concurrent facade calls
MaxStarted == 3     \* cap on the number of facade calls started
MaxClock == 11      \* the clock stops here
TickSteps == {5, 6} \* the amounts by which the clock advances, in minutes

VARIABLES
  apiKeys,        \* GeminiKeyManager.apiKeys, as the number of keys held
  currentIndex,   \* GeminiKeyManager.currentIndex
  failedKeys,     \* GeminiKeyManager.failedKeys
  keyUsage,       \* GeminiKeyManager.keyUsage: index -> count (0 = no entry)
  net,            \* the handler invocations awaiting generateContent, per slot
  lastSel,        \* history: the most recent getNextKey call
  streak,         \* history: indices returned since failedKeys was last non-empty
  justFailed,     \* history: index whose markKeyFailed was the latest pool operation
  revived,        \* history: index marked failed and at once successful, no reset since
  clock,          \* Date.now(), in minutes
  cache,          \* CacheManager.cache: key -> [data, timestamp]
  timers,         \* the pending cleanup timers of CacheManager.set
  call,           \* the facade calls in progress, per caller
  apiStatus,      \* App: the apiStatus state
  uiError,        \* App: the error state
  lastDone,       \* history: the facade call that ended in the step just taken
  started,        \* history: number of facade calls started
  stored,         \* history: what set() was last given per key: data, time, ttl
  lastGet         \* history: the cache lookup of the step just taken

poolVars == <<apiKeys, currentIndex, failedKeys, keyUsage>>
histVars == <<lastSel, streak, justFailed, revived>>
clientVars == <<clock, cache, timers, call, apiStatus, uiError, lastDone, started, stored, lastGet>>
vars == <<apiKeys, currentIndex, failedKeys, keyUsage, net, lastSel, streak, justFailed, revived,
         clock, cache, timers, call, apiStatus, uiError, lastDone, started, stored, lastGet>>

Slots == 1..MaxSlots
Calls == 1..MaxCalls
Indices == 0..(apiKeys - 1)
NoIndex == -1

\* ------------------------------------------------- GeminiKeyManager (pure)

\* this.apiKeys.length === 0
noKeysOffByOne(n) == n <= 1
noKeys(n) == n = 0

\* this.currentIndex = (this.currentIndex + 1) % this.apiKeys.length
advanceStuck(cur, n) == cur % n
advanceNoWrap(cur, n) == cur + 1
advance(cur, n) == (cur + 1) % n

\* this.failedKeys.has(index)
isFailedNever(failed, index) == FALSE
isFailed(failed, index) == index \in failed

\* this.failedKeys.clear()
clearFailedOne(failed) == failed \ {CHOOSE i \in failed : \A j \in failed : i <= j}
clearFailed(failed) == {}

\* the for loop of getNextKey: i candidates examined so far, cursor at cur
RECURSIVE sweepOver(_, _, _, _)
sweepOver(i, cur, failed, n) ==
  IF i > n
    THEN [found |-> FALSE, index |-> NoIndex, cur |-> cur, examined |-> i]
    ELSE LET index == advance(cur, n) IN
         IF ~isFailed(failed, index)
           THEN [found |-> TRUE, index |-> index, cur |-> index, examined |-> i + 1]
           ELSE sweepOver(i + 1, index, failed, n)

RECURSIVE sweep(_, _, _, _)
sweep(i, cur, failed, n) ==
  IF i >= n
    THEN [found |-> FALSE, index |-> NoIndex, cur |-> cur, examined |-> i]
    ELSE LET index == advance(cur, n) IN
         IF ~isFailed(failed, index)
           THEN [found |-> TRUE, index |-> index, cur |-> index, examined |-> i + 1]
           ELSE sweep(i + 1, index, failed, n)

\* getNextKey: result record with the new cursor and failed set; resets and
\* examined count the global resets and the candidates looked at
RECURSIVE getNextKeyRec(_, _, _, _, _)
getNextKeyRec(cur, failed, n, resets, examined) ==
  IF noKeys(n)
    THEN [found |-> FALSE, index |-> NoIndex, cur |-> cur, failed |-> failed,
          resets |-> resets, examined |-> examined]
    ELSE LET s == sweep(0, cur, failed, n) IN
         IF s.found
           THEN [found |-> TRUE, index |-> s.index, cur |-> s.cur, failed |-> failed,
                 resets |-> resets, examined |-> examined + s.examined]
           ELSE getNextKeyRec(s.cur, clearFailed(failed), n, resets + 1,
                              examined + s.examined)

getNextKeyFromStart(cur, failed, n) ==
  IF n > 0 /\ failed = 0..(n - 1)
    THEN getNextKeyRec(n - 1, failed, n, 0, 0)
    ELSE getNextKeyRec(cur, failed, n, 0, 0)
getNextKey(cur, failed, n) == getNextKeyRec(cur, failed, n, 0, 0)

\* markKeyFailed / markKeySuccess on the failed set
markKeyFailedNext(failed, index) == failed \cup {index + 1}
markKeyFailedToggle(failed, index) ==
  IF index \in failed THEN failed \ {index} ELSE failed \cup {index}
markKeyFailed(failed, index) == failed \cup {index}
markKeySuccessKeep(failed, index) == failed
markKeySuccess(failed, index) == failed \ {index}


\* ------------------------------------------------------- error messages
\* A message is modelled by its text; includes(msg, tok) is
\* String.prototype.includes on the substrings the code looks for.
MsgRateLimit == "429 Too Many Requests"
MsgQuota == "429 RESOURCE_EXHAUSTED: You exceeded your current quota"
MsgPermission == "403 PERMISSION_DENIED"
MsgApiKey == "API key not valid"
MsgNetwork == "fetch failed"
MsgNoText == "Cannot read properties of undefined (reading 'length')"
MsgMethod == "Method not allowed"
MsgMissing == "Missing required fields"
MsgInvalidAction == "Invalid action"
MsgNoKeys == "No API keys available. Please check environment variables."
MsgNone == ""

Tokens(msg) ==
  CASE msg = MsgRateLimit -> {"429"}
    [] msg = MsgQuota -> {"429", "quota", "RESOURCE_EXHAUSTED"}
    [] msg = MsgPermission -> {"PERMISSION_DENIED"}
    [] msg = MsgApiKey -> {"API key"}
    [] msg = MsgNoKeys -> {"API key"}
    [] OTHER -> {}

includes(msg, tok) == tok \in Tokens(msg)

\* the condition of the apiError catch that marks the key failed
isKeyErrorAll(msg) == TRUE
isKeyError(msg) ==
  \/ includes(msg, "429")
  \/ includes(msg, "quota")
  \/ includes(msg, "RESOURCE_EXHAUSTED")
  \/ includes(msg, "PERMISSION_DENIED")
  \/ includes(msg, "API key")

\* --------------------------------------------------- HTTP requests, replies
Actions == {"analyze", "trace", "chat"}

Request(method, statusUrl, fields, action) ==
  [method |-> method, statusUrl |-> statusUrl, fields |-> fields, action |-> action]

NoRequest == Request("none", FALSE, FALSE, "none")

\* the requests a client of the endpoint can send
Requests ==
  {Request("OPTIONS", FALSE, FALSE, "none"),
   Request("GET", TRUE, FALSE, "none"),
   Request("GET", FALSE, FALSE, "none"),
   Request("POST", FALSE, FALSE, "none"),
   Request("POST", FALSE, TRUE, "bogus")}
  \cup {Request("POST", FALSE, TRUE, a) : a \in Actions}

NoStatus == [totalKeys |-> -1, activeKeys |-> -1, failedKeys |-> -1]
NoResult == [type |-> "none", val |-> "none"]

Response(code, error, result, status, details, usedKey) ==
  [code |-> code, error |-> error, result |-> result, status |-> status,
   details |-> details, usedKey |-> usedKey]

NoResponse == Response(0, MsgNone, NoResult, NoStatus, NoStatus, NoIndex)

\* what ai.models.generateContent can do: resolve with a text, resolve with
\* no text at all, or reject with an error message
Texts == {"json", "garbage", ""}
UpstreamOutcomes ==
  [kind : {"text"}, text : Texts, msg : {MsgNone}]
  \cup [kind : {"notext"}, text : {""}, msg : {MsgNone}]
  \cup [kind : {"reject"}, text : {""},
        msg : {MsgRateLimit, MsgQuota, MsgPermission, MsgApiKey, MsgNetwork}]

\* the 200 body the handler builds from the model's text
successResult(action, text) ==
  IF action \in {"analyze", "trace"}
    THEN IF text = "json" THEN [type |-> "object", val |-> "parsed"]
                          ELSE [type |-> "object", val |-> "fallback"]
    ELSE [type |-> "string", val |-> text]

IdleSlot == [pc |-> "idle", action |-> "none", index |-> NoIndex]

RECURSIVE SumUse(_, _)
SumUse(usage, n) == IF n = 0 THEN 0 ELSE usage[n - 1] + SumUse(usage, n - 1)
TotalUse == SumUse(keyUsage, apiKeys)

statusOfEvicting(n, failed) ==
  [totalKeys |-> n - Cardinality(failed), activeKeys |-> n - Cardinality(failed),
   failedKeys |-> Cardinality(failed)]

statusOf(n, failed) ==
  [totalKeys |-> n, activeKeys |-> n - Cardinality(failed),
   failedKeys |-> Cardinality(failed)]

\* ------------------------------------------------------------ the handler
\* handler, from its entry to the await of generateContent or to an earlier
\* return: the new pool state, the getNextKey result (sel.called tells whether
\* it was called), whether the invocation now awaits the model, and the
\* response of an early return
NotCalled == [found |-> FALSE, index |-> NoIndex, cur |-> 0, failed |-> {},
              resets |-> 0, examined |-> 0]

EarlyClear(cur, failed, usage, resp) ==
  [cur |-> cur, failed |-> {}, usage |-> usage, called |-> FALSE,
   sel |-> NotCalled, awaiting |-> FALSE, resp |-> resp]

Early(cur, failed, usage, resp) ==
  [cur |-> cur, failed |-> failed, usage |-> usage, called |-> FALSE,
   sel |-> NotCalled, awaiting |-> FALSE, resp |-> resp]

handlerBegin(req, cur, failed, usage, n) ==
  IF req.method = "OPTIONS" THEN
    Early(cur, failed, usage, Response(200, MsgNone, NoResult, NoStatus, NoStatus, NoIndex))
  ELSE IF req.method = "GET" /\ req.statusUrl THEN
    Early(cur, failed, usage,
          Response(200, MsgNone, NoResult, statusOf(n, failed), NoStatus, NoIndex))
  ELSE IF req.method # "POST" THEN
    Early(cur, failed, usage, Response(405, MsgMethod, NoResult, NoStatus, NoStatus, NoIndex))
  ELSE IF ~req.fields THEN
    Early(cur, failed, usage, Response(400, MsgMissing, NoResult, NoStatus, NoStatus, NoIndex))
  ELSE
    LET k == getNextKey(cur, failed, n) IN
    IF ~k.found THEN
      [cur |-> k.cur, failed |-> k.failed, usage |-> usage, called |-> TRUE, sel |-> k,
       awaiting |-> FALSE,
       resp |-> Response(500, MsgNoKeys, NoResult, NoStatus, statusOf(n, k.failed), NoIndex)]
    ELSE
      [cur |-> k.cur, failed |-> k.failed,
       usage |-> [usage EXCEPT ![k.index] = @ + 1], called |-> TRUE, sel |-> k,
       awaiting |-> req.action \in Actions,
       resp |-> IF req.action \in Actions THEN NoResponse
                ELSE Response(400, MsgInvalidAction, NoResult, NoStatus, NoStatus, NoIndex)]

\* handler, from the settling of generateContent to its response: the new
\* failed set, which mark operation ran, and the response
handlerSettle(action, index, out, failed, n) ==
  IF out.kind = "text" THEN
    [failed |-> markKeySuccess(failed, index), mark |-> "success",
     resp |-> Response(200, MsgNone, successResult(action, out.text), NoStatus,
                       NoStatus, index)]
  ELSE
    LET msg == IF out.kind = "notext" THEN MsgNoText ELSE out.msg
        after == IF isKeyError(msg) THEN markKeyFailed(failed, index) ELSE failed IN
    [failed |-> after, mark |-> IF isKeyError(msg) THEN "failed" ELSE "none",
     resp |-> Response(500, msg, NoResult, statusOf(n, after), NoStatus, NoIndex)]

\* ------------------------------------------------------ history variables
NoSel == [found |-> FALSE, index |-> NoIndex, pre |-> {}, post |-> {}, resets |-> 0,
          examined |-> 0, called |-> FALSE]
NoRevived == [index |-> NoIndex, selected |-> FALSE]

\* bookkeeping of one getNextKey call with result k
SelectHistory(k) ==
  /\ lastSel' = [found |-> k.found, index |-> k.index, pre |-> failedKeys,
                 post |-> k.failed, resets |-> k.resets, examined |-> k.examined,
                 called |-> TRUE]
  /\ streak' = IF k.found /\ failedKeys = {}
                 THEN LET s == Append(streak, k.index) IN
                      IF Len(s) > apiKeys THEN Tail(s) ELSE s
                 ELSE <<>>
  /\ justFailed' = NoIndex
  /\ revived' = IF k.resets > 0 THEN NoRevived
                ELSE IF k.found /\ k.index = revived.index
                  THEN [revived EXCEPT !.selected = TRUE]
                  ELSE revived

\* bookkeeping of the mark operation of one settled invocation
MarkHistory(mark, index) ==
  /\ UNCHANGED lastSel
  /\ justFailed' = CASE mark = "failed" -> index
                     [] mark = "success" -> NoIndex
                     [] OTHER -> justFailed
  /\ revived' = CASE mark = "failed" /\ revived.index = index -> NoRevived
                  [] mark = "success" /\ justFailed = index ->
                       [index |-> index, selected |-> FALSE]
                  [] OTHER -> revived
  /\ streak' = IF mark = "failed" THEN <<>> ELSE streak

\* ---------------------------------------------------- server-side actions
\* a request reaches the handler, which runs up to its await or early return
HandlerBegin(r, req) ==
  /\ net[r].pc = "idle"
  /\ (req.method = "POST" /\ req.fields) => TotalUse < MaxUse
  /\ LET h == handlerBegin(req, currentIndex, failedKeys, keyUsage, apiKeys) IN
     /\ currentIndex' = h.cur
     /\ failedKeys' = h.failed
     /\ keyUsage' = h.usage
     /\ UNCHANGED apiKeys
     /\ IF h.called THEN SelectHistory(h.sel) ELSE UNCHANGED histVars
     /\ net' = [net EXCEPT ![r] =
                  IF h.awaiting
                    THEN [pc |-> "upstream", action |-> req.action, index |-> h.sel.index]
                    ELSE IdleSlot]
     /\ UNCHANGED clientVars

\* generateContent settles and the handler responds
HandlerUpstream(r, out) ==
  /\ net[r].pc = "upstream"
  /\ LET h == handlerSettle(net[r].action, net[r].index, out, failedKeys, apiKeys) IN
     /\ failedKeys' = h.failed
     /\ MarkHistory(h.mark, net[r].index)
     /\ net' = [net EXCEPT ![r] = IdleSlot]
     /\ UNCHANGED <<apiKeys, currentIndex, keyUsage>>
     /\ UNCHANGED clientVars

\* ======================================================= the client side
\* ----------------------------------------------------------- getCacheKey
\* Strings are sequences of UTF-16 code units.  The hash is kept as a pair of
\* 16-bit halves <<hi, lo>> of its 32-bit two's-complement pattern.
Half == 65536

StrAnalyze == <<97, 110, 97, 108, 121, 122, 101>>
StrTrace == <<116, 114, 97, 99, 101>>
StrChat == <<99, 104, 97, 116>>
Colon == <<58>>
StrEmpty == <<>>

methodName(op) ==
  CASE op = "analyze" -> StrAnalyze
    [] op = "trace" -> StrTrace
    [] OTHER -> StrChat

\* hash = ((hash << 5) - hash) + char; hash = hash & hash
hashStep(h, char) ==
  LET lo == 31 * h[2] + char
      hi == 31 * h[1] + (lo \div Half)
  IN <<hi % Half, lo % Half>>

RECURSIVE hashLoop(_, _, _)
hashLoop(content, i, h) ==
  IF i > Len(content) THEN h ELSE hashLoop(content, i + 1, hashStep(h, content[i]))

\* Math.abs of the signed 32-bit value, again as two halves
absHash(h) ==
  IF h[1] < Half \div 2 THEN h
  ELSE IF h[2] = 0 THEN <<(Half - h[1]) % Half, 0>>
  ELSE <<Half - h[1] - 1, Half - h[2]>>

\* Number.prototype.toString(36): the digits, most significant first
RECURSIVE toString36(_)
toString36(v) ==
  IF v[1] = 0 /\ v[2] < 36 THEN <<v[2]>>
  ELSE LET qh == v[1] \div 36
           rest == (v[1] % 36) * Half + v[2]
       IN Append(toString36(<<qh, rest \div 36>>), rest % 36)

\* the key is "cache_" followed by the digits; the prefix is the same for all
getCacheKey(method, code, language, extra) ==
  LET content == method \o Colon \o language \o Colon \o code \o Colon \o extra
  IN toString36(absHash(hashLoop(content, 1, <<0, 0>>)))

\* ----------------------------------------------------------- CacheManager
\* time is counted in minutes
DefaultTTL == 10
ChatTTL == 5

\* JavaScript truthiness of the values the facade handles
Value(type, val) == [type |-> type, val |-> val]
Null == Value("null", "null")
Undefined == Value("undefined", "undefined")
truthy(v) == ~(v \in {Null, Undefined} \/ (v.type = "string" /\ v.val = ""))

\* ttl || this.defaultTTL
timerDelay(ttl) == IF ttl = 0 THEN DefaultTTL ELSE ttl

\* the ttl that get() compares the age with
getTTL(key) == DefaultTTL

\* CacheManager.set: the new map (the timer is added by the action)
cacheSet(c, key, data, now) ==
  [k \in DOMAIN c \cup {key} |->
     IF k = key THEN [data |-> data, timestamp |-> now] ELSE c[k]]

cacheDelete(c, key) == [k \in DOMAIN c \ {key} |-> c[k]]

\* CacheManager.get: the value returned and the map left behind
cacheGet(c, key, now) ==
  IF key \notin DOMAIN c THEN [data |-> Null, cache |-> c]
  ELSE IF now - c[key].timestamp > getTTL(key)
    THEN [data |-> Null, cache |-> cacheDelete(c, key)]
    ELSE [data |-> c[key].data, cache |-> c]

\* the callback of the setTimeout in set()
timerCallback(c, key, now) ==
  IF key \in DOMAIN c /\ c[key].timestamp = now THEN cacheDelete(c, key) ELSE c

EmptyCache == [k \in {} |-> Null]

\* --------------------------------------------------------- fetchWithRetry
Retries == 3      \* default of the retries parameter
Delay == 1000     \* default of the delay parameter, in milliseconds

MsgClientQuota == "API quota exhausted. Please try again later."
MsgRequestFailed == "Request failed with status"
MsgMaxRetries == "Max retries exceeded"

\* a fetch that rejects (no response at all)
NetworkFailure == Response(-1, MsgNetwork, NoResult, NoStatus, NoStatus, NoIndex)

\* response.ok
ok(resp) == resp.code >= 200 /\ resp.code <= 299

RECURSIVE pow2(_)
pow2(n) == IF n = 0 THEN 1 ELSE 2 * pow2(n - 1)

\* delay * Math.pow(2, attempt)
waitTimeLinear(attempt) == Delay * (attempt + 1)
waitTime(attempt) == Delay * pow2(attempt)

\* the condition of the for loop
loopCondShort(attempt, retries) == attempt < retries - 1
loopCond(attempt, retries) == attempt < retries

\* the kind of one attempt's outcome, as the code tells them apart
classify(resp) ==
  IF resp.code = -1 THEN "network"
  ELSE IF ok(resp) THEN "ok"
  ELSE IF resp.code = 429 THEN "429"
  ELSE IF includes(resp.error, "quota") \/ includes(resp.error, "exhausted") THEN "quota"
  ELSE "error"

\* the error thrown inside the try block for a response that is not ok
thrownFor(resp) ==
  IF includes(resp.error, "quota") \/ includes(resp.error, "exhausted")
    THEN MsgClientQuota
    ELSE IF resp.error # MsgNone THEN resp.error ELSE MsgRequestFailed

\* one iteration of the loop, from the settling of fetch: return the data,
\* wait and go round again, or throw to the caller
fetchStepLate(resp, attempt, retries) ==
  IF resp.code # -1 /\ ok(resp) THEN
    [next |-> "return", wait |-> 0, error |-> MsgNone]
  ELSE IF resp.code # -1 /\ resp.code = 429 /\ attempt < retries - 1 THEN
    [next |-> "wait", wait |-> waitTime(attempt), error |-> MsgNone]
  ELSE
    LET err == IF resp.code = -1 THEN MsgNetwork ELSE thrownFor(resp) IN
    IF attempt = retries
      THEN [next |-> "throw", wait |-> 0, error |-> err]
      ELSE [next |-> "wait", wait |-> waitTime(attempt), error |-> err]

fetchStep(resp, attempt, retries) ==
  IF resp.code # -1 /\ ok(resp) THEN
    [next |-> "return", wait |-> 0, error |-> MsgNone]
  ELSE IF resp.code # -1 /\ resp.code = 429 /\ attempt < retries - 1 THEN
    [next |-> "wait", wait |-> waitTime(attempt), error |-> MsgNone]
  ELSE
    LET err == IF resp.code = -1 THEN MsgNetwork ELSE thrownFor(resp) IN
    IF attempt = retries - 1
      THEN [next |-> "throw", wait |-> 0, error |-> err]
      ELSE [next |-> "wait", wait |-> waitTime(attempt), error |-> err]

\* ------------------------------------------------------------- the facade
Ops == {"analyze", "trace", "chat"}

ClientFallback == Value("object", "clientFallback")

\* the ttl argument of cacheManager.set (0: none passed)
ttlArg(op) == IF op = "chat" THEN ChatTTL ELSE 0

\* the freshness window the entry of an operation is meant to have
ttlOf(op) == IF op = "chat" THEN ChatTTL ELSE DefaultTTL

extraOf(op, q) == IF op = "chat" THEN q ELSE StrEmpty

keyOf(op, code, lang, q) == getCacheKey(methodName(op), code, lang, extraOf(op, q))

\* what the facade makes of the data fetchWithRetry returned: the value it
\* caches and returns (analyze and trace fall back on any exception)
facadeResult(op, result) ==
  IF op = "chat" THEN
    IF result.type = "string" THEN result
    ELSE IF result.type = "object" THEN Value("string", "stringified")
    ELSE Undefined
  ELSE
    IF result.type = "string"
      THEN IF result.val = "json" THEN Value("object", "parsed") ELSE ClientFallback
    ELSE IF result.type = "object" THEN result
    ELSE ClientFallback

\* whether the facade turns an error of fetchWithRetry into a returned value
catchesErrors(op) == op \in {"analyze", "trace"}

\* ---------------------------------------------------- client-side state
IdleCall ==
  [pc |-> "idle", op |-> "none", code |-> StrEmpty, lang |-> StrEmpty, q |-> StrEmpty,
   attempt |-> 0, fetches |-> 0, waits |-> <<>>, seen |-> <<>>, expectHit |-> FALSE,
   chain |-> FALSE, index |-> NoIndex, resp |-> NoResponse, key |-> StrEmpty,
   retries |-> Retries, hist |-> <<>>, limitedOn |-> NoIndex]

\* what one facade call asks: the fields of the request it sends upstream
ReqOf(op, code, lang, q, hist) ==
  [op |-> op, code |-> code, lang |-> lang, q |-> q, hist |-> hist]
NoReq == ReqOf("none", StrEmpty, StrEmpty, StrEmpty, <<>>)

NoDone ==
  [op |-> "none", outcome |-> "none", value |-> Null, error |-> MsgNone,
   fetched |-> "none", payload |-> NoResult, fetches |-> 0, waits |-> <<>>,
   seen |-> <<>>, expectHit |-> FALSE, retries |-> Retries]

NoGet == [called |-> FALSE, had |-> FALSE, age |-> 0, ttl |-> 0, sdata |-> Null,
          result |-> Null, req |-> NoReq, sreq |-> NoReq]

\* lastDone and lastGet describe the step just taken only
Unobserved == lastDone' = NoDone /\ lastGet' = NoGet

\* Call c, suspended at the await named by `at`, takes its next step when that
\* await settles: a pending fetch or timer of one call holds back no other.
readyBlocking(c, at) == call[c].pc = at /\ \A o \in Calls \ {c} : call[o].pc # "backoff"
ready(c, at) == call[c].pc = at

\* the synchronous start of one facade function on cache ch: the cache lookup,
\* then either the cached value is returned or the first fetch is issued
beginWithKey(key, op, code, lang, q, chain, ch, st) ==
  LET g == cacheGet(ch, key, clock)
      had == key \in DOMAIN st
      expect == had /\ clock - st[key].at <= st[key].ttl
  IN [done |-> truthy(g.data),
      cache |-> g.cache,
      call |-> IF truthy(g.data) THEN IdleCall
               ELSE [IdleCall EXCEPT !.pc = "fetching", !.op = op, !.code = code,
                                     !.lang = lang, !.q = q, !.fetches = 1,
                                     !.expectHit = expect, !.chain = chain,
                                     !.key = key],
      doneRec |-> [NoDone EXCEPT !.op = op, !.outcome = "returned", !.value = g.data,
                                 !.expectHit = expect],
      lastGet |-> [called |-> TRUE, had |-> had,
                   age |-> IF had THEN clock - st[key].at ELSE 0,
                   ttl |-> IF had THEN st[key].ttl ELSE 0,
                   sdata |-> IF had THEN st[key].data ELSE Null,
                   result |-> g.data,
                   req |-> ReqOf(op, code, lang, extraOf(op, q), <<>>),
                   sreq |-> IF had THEN st[key].req ELSE NoReq]]

beginOp(op, code, lang, q, chain, ch, st) ==
  beginWithKey(keyOf(op, code, lang, q), op, code, lang, q, chain, ch, st)

\* handleAnalyze awaits analyzeCode and then generateTrace: with chain set, a
\* cached analysis leads straight on to the trace
beginFrom(op, code, lang, q, chain, ch, st) ==
  LET b == beginOp(op, code, lang, q, chain, ch, st) IN
  IF b.done /\ chain /\ op = "analyze"
    THEN beginOp("trace", code, lang, q, FALSE, b.cache, st)
    ELSE b

Begin(c, b) ==
  /\ call' = [call EXCEPT ![c] = b.call]
  /\ cache' = b.cache
  /\ lastGet' = b.lastGet
  /\ lastDone' = IF b.done THEN b.doneRec ELSE NoDone

\* fetchWithRetry of call record cr has returned data or thrown err: the rest
\* of the facade function (and of handleAnalyze when chained)
Conclude(c, cr, threw, err, data) ==
  LET key == cr.key
      returns == ~threw \/ catchesErrors(cr.op)
      v == IF threw THEN ClientFallback ELSE facadeResult(cr.op, data)
      cache1 == IF returns THEN cacheSet(cache, key, v, clock) ELSE cache
      stored1 == IF returns
                   THEN [k \in DOMAIN stored \cup {key} |->
                           IF k = key
                             THEN [data |-> v, at |-> clock, ttl |-> ttlOf(cr.op),
                                   req |-> ReqOf(cr.op, cr.code, cr.lang,
                                                 extraOf(cr.op, cr.q), cr.hist)]
                           ELSE stored[k]]
                   ELSE stored
      done == [op |-> cr.op, outcome |-> IF returns THEN "returned" ELSE "threw",
               value |-> IF returns THEN v ELSE Null,
               error |-> IF threw THEN err ELSE MsgNone,
               fetched |-> IF threw THEN "threw" ELSE "returned",
               payload |-> IF threw THEN NoResult ELSE data,
               fetches |-> cr.fetches, waits |-> cr.waits, seen |-> cr.seen,
               expectHit |-> cr.expectHit, retries |-> cr.retries]
  IN /\ timers' = IF returns
                    THEN timers \cup {[key |-> key, due |-> clock + timerDelay(ttlArg(cr.op))]}
                    ELSE timers
     /\ stored' = stored1
     /\ IF returns /\ cr.chain /\ cr.op = "analyze"
          THEN LET b == beginOp("trace", cr.code, cr.lang, cr.q, FALSE, cache1, stored1) IN
               /\ call' = [call EXCEPT ![c] = b.call]
               /\ cache' = b.cache
               /\ lastGet' = b.lastGet
               /\ lastDone' = IF b.done THEN b.doneRec ELSE done
          ELSE /\ call' = [call EXCEPT ![c] = IdleCall]
               /\ cache' = cache1
               /\ lastGet' = NoGet
               /\ lastDone' = done

\* the continuation of fetchWithRetry of call c when its fetch settles with resp
Continue(c, resp) ==
  LET step == fetchStep(resp, call[c].attempt, call[c].retries)
      cr == [call[c] EXCEPT !.seen = Append(@, classify(resp)), !.resp = NoResponse,
                            !.index = NoIndex,
                            !.limitedOn = IF includes(resp.error, "429")
                                            THEN call[c].index ELSE NoIndex]
  IN IF step.next = "wait" THEN
       /\ call' = [call EXCEPT ![c] = [cr EXCEPT !.pc = "backoff",
                                                 !.waits = Append(@, step.wait)]]
       /\ Unobserved
       /\ UNCHANGED <<cache, timers, stored>>
     ELSE Conclude(c, cr, step.next = "throw", step.error, resp.result)

serverVars == <<apiKeys, currentIndex, failedKeys, keyUsage, net, lastSel, streak,
                justFailed, revived>>
uiVars == <<apiStatus, uiError>>

\* ---------------------------------------------------- client-side actions
Codes == {<<120>>}
Languages == {<<106, 115>>}
Questions == {<<113>>}

\* a caller invokes analyzeCode, generateTrace or askQuestion
Call(c, op, code, lang, q) ==
  /\ ready(c, "idle")
  /\ started < MaxStarted
  /\ started' = started + 1
  /\ Begin(c, beginFrom(op, code, lang, q, FALSE, cache, stored))
  /\ UNCHANGED <<clock, timers, stored, serverVars, uiVars>>

\* the fetch of call c settles with a response or a rejection
FetchSettle(c, resp) ==
  /\ ready(c, "fetching")
  /\ Continue(c, resp)
  /\ UNCHANGED <<clock, started, serverVars, uiVars>>

\* the backoff wait of call c ends: the next iteration of the loop
BackoffEnd(c) ==
  /\ ready(c, "backoff")
  /\ LET cr == [call[c] EXCEPT !.attempt = @ + 1] IN
     IF loopCond(cr.attempt, cr.retries)
       THEN /\ call' = [call EXCEPT ![c] = [cr EXCEPT !.pc = "fetching",
                                                      !.fetches = @ + 1]]
            /\ Unobserved
            /\ UNCHANGED <<cache, timers, stored>>
       ELSE Conclude(c, cr, TRUE, MsgMaxRetries, NoResult)
  /\ UNCHANGED <<clock, started, serverVars, uiVars>>

\* time passes
Tick(d) ==
  /\ clock + d <= MaxClock
  /\ clock' = clock + d
  /\ Unobserved
  /\ UNCHANGED <<cache, timers, call, started, stored, serverVars, uiVars>>

\* a cleanup timer of CacheManager.set fires, at or after its due time
TimerFire(t) ==
  /\ t \in timers
  /\ clock >= t.due
  /\ cache' = timerCallback(cache, t.key, clock)
  /\ timers' = timers \ {t}
  /\ Unobserved
  /\ UNCHANGED <<clock, call, started, stored, serverVars, uiVars>>

\* clearCache()
ClearCache ==
  /\ cache # EmptyCache
  /\ cache' = EmptyCache
  /\ stored' = EmptyCache
  /\ Unobserved
  /\ UNCHANGED <<clock, timers, call, started, serverVars, uiVars>>

\* the responses and rejections a fetch can settle with
HttpOutcomes ==
  {Response(200, MsgNone, r, NoStatus, NoStatus, 0) :
     r \in {Value("object", "parsed"), Value("object", "fallback"),
            Value("string", "json"), Value("string", "garbage"),
            Value("string", ""), Undefined}}
  \cup {Response(429, MsgNone, NoResult, NoStatus, NoStatus, NoIndex),
        Response(500, MsgQuota, NoResult, NoStatus, NoStatus, NoIndex),
        Response(500, MsgNetwork, NoResult, NoStatus, NoStatus, NoIndex),
        Response(400, MsgInvalidAction, NoResult, NoStatus, NoStatus, NoIndex),
        NetworkFailure}

\* ------------------------------------------- specification: the client side
InitServerIdle ==
  /\ apiKeys = 0
  /\ currentIndex = 0
  /\ failedKeys = {}
  /\ keyUsage = [i \in {} |-> 0]
  /\ net = [r \in Slots |-> IdleSlot]
  /\ lastSel = NoSel
  /\ streak = <<>>
  /\ justFailed = NoIndex
  /\ revived = NoRevived

InitClientSide ==
  /\ clock = 0
  /\ cache = EmptyCache
  /\ timers = {}
  /\ call = [c \in Calls |-> IdleCall]
  /\ lastDone = NoDone
  /\ started = 0
  /\ stored = EmptyCache
  /\ lastGet = NoGet
  /\ apiStatus = NoStatus
  /\ uiError = MsgNone

InitClient == InitServerIdle /\ InitClientSide

\* the calls of these specifications are made one after the other, by caller 1
Caller == 1

\* the settlings explored together with the clock: a parsed object, a JSON
\* text, an empty text, and a quota error
CacheOutcomes ==
  {Response(200, MsgNone, r, NoStatus, NoStatus, 0) :
     r \in {Value("object", "parsed"), Value("string", "json"), Value("string", "")}}
  \cup {Response(500, MsgQuota, NoResult, NoStatus, NoStatus, NoIndex)}

\* fetchWithRetry and the facade against every kind of settling, clock at rest
NextRetry ==
  \/ \E op \in Ops, code \in Codes, lang \in Languages, q \in Questions :
       Call(Caller, op, code, lang, q)
  \/ \E resp \in HttpOutcomes : FetchSettle(Caller, resp)
  \/ BackoffEnd(Caller)
  \/ ClearCache

SpecRetry == InitClient /\ [][NextRetry]_vars

\* fetchWithRetry under every value of its retries parameter (the facade
\* functions pass none, which is Retries), called through askQuestion, which
\* hands its result and its error on: one settling of each kind
RetryOutcomes ==
  {Response(200, MsgNone, Value("string", "json"), NoStatus, NoStatus, 0),
   Response(429, MsgNone, NoResult, NoStatus, NoStatus, NoIndex),
   Response(500, MsgQuota, NoResult, NoStatus, NoStatus, NoIndex),
   Response(500, MsgNetwork, NoResult, NoStatus, NoStatus, NoIndex),
   NetworkFailure}

\* a facade call whose fetchWithRetry runs with retries = n
CallWithRetries(c, op, code, lang, q, n) ==
  /\ ready(c, "idle")
  /\ started < MaxStarted
  /\ started' = started + 1
  /\ LET b == beginFrom(op, code, lang, q, FALSE, cache, stored) IN
     /\ call' = [call EXCEPT ![c] = IF b.done THEN b.call
                                     ELSE [b.call EXCEPT !.retries = n]]
     /\ cache' = b.cache
     /\ lastGet' = b.lastGet
     /\ lastDone' = IF b.done THEN b.doneRec ELSE NoDone
  /\ UNCHANGED <<clock, timers, stored, serverVars, uiVars>>

NextRetryN ==
  \/ \E code \in Codes, lang \in Languages, q \in Questions, n \in 1..MaxRetries :
       CallWithRetries(Caller, "chat", code, lang, q, n)
  \/ \E resp \in RetryOutcomes : FetchSettle(Caller, resp)
  \/ BackoffEnd(Caller)

\* every fetch settles and every backoff timer fires
SpecRetryN ==
  /\ InitClient /\ [][NextRetryN]_vars
  /\ WF_vars(\E resp \in RetryOutcomes : FetchSettle(Caller, resp))
  /\ WF_vars(BackoffEnd(Caller))

\* facade calls in flight side by side, clock at rest
ConcOutcomes ==
  {Response(200, MsgNone, Value("string", "json"), NoStatus, NoStatus, 0),
   Response(500, MsgQuota, NoResult, NoStatus, NoStatus, NoIndex)}

NextConc ==
  \/ \E c \in Calls, op \in Ops, code \in Codes, lang \in Languages, q \in Questions :
       Call(c, op, code, lang, q)
  \/ \E c \in Calls, resp \in ConcOutcomes : FetchSettle(c, resp)
  \/ \E c \in Calls : BackoffEnd(c)

SpecConc == InitClient /\ [][NextConc]_vars

\* the facade over requests that differ in code and in conversation history:
\* the codes "x", "dfiovayg" and "jhgpseet", the histories none and one message
KeyCodes ==
  {<<120>>,
   <<100, 102, 105, 111, 118, 97, 121, 103>>,
   <<106, 104, 103, 112, 115, 101, 101, 116>>}
Histories == {<<>>, <<104>>}
KeyOutcomes ==
  {Response(200, MsgNone, Value("string", "json"), NoStatus, NoStatus, 0),
   Response(200, MsgNone, Value("object", "parsed"), NoStatus, NoStatus, 0)}

\* askQuestion with a conversation history, which goes into the request body
AskWithHistory(c, code, lang, q, hist) ==
  /\ ready(c, "idle")
  /\ started < MaxStarted
  /\ started' = started + 1
  /\ LET b == beginFrom("chat", code, lang, q, FALSE, cache, stored) IN
     /\ call' = [call EXCEPT ![c] = IF b.done THEN b.call
                                     ELSE [b.call EXCEPT !.hist = hist]]
     /\ cache' = b.cache
     /\ lastGet' = [b.lastGet EXCEPT !.req.hist = hist]
     /\ lastDone' = IF b.done THEN b.doneRec ELSE NoDone
  /\ UNCHANGED <<clock, timers, stored, serverVars, uiVars>>

NextKeys ==
  \/ \E op \in {"analyze", "trace"}, code \in KeyCodes, lang \in Languages :
       Call(Caller, op, code, lang, StrEmpty)
  \/ \E code \in Codes, lang \in Languages, q \in Questions, hist \in Histories :
       AskWithHistory(Caller, code, lang, q, hist)
  \/ \E resp \in KeyOutcomes : FetchSettle(Caller, resp)

SpecKeys == InitClient /\ [][NextKeys]_vars

\* the cache and the facade as time passes
NextCache ==
  \/ \E op \in Ops, code \in Codes, lang \in Languages, q \in Questions :
       Call(Caller, op, code, lang, q)
  \/ \E resp \in CacheOutcomes : FetchSettle(Caller, resp)
  \/ BackoffEnd(Caller)
  \/ \E d \in TickSteps : Tick(d)
  \/ \E t \in timers : TimerFire(t)
  \/ ClearCache

SpecCache == InitClient /\ [][NextCache]_vars

\* ------------------------------------------------- specification: the pool
InitPool ==
  /\ apiKeys \in 0..MaxKeys
  /\ currentIndex = 0
  /\ failedKeys = {}
  /\ keyUsage = [i \in 0..(apiKeys - 1) |-> 0]
  /\ net = [r \in Slots |-> IdleSlot]
  /\ lastSel = NoSel
  /\ streak = <<>>
  /\ justFailed = NoIndex
  /\ revived = NoRevived
  /\ InitClientSide

\* handler invocations are anonymous: a request takes the lowest free slot
FreeSlot(r) == net[r].pc = "idle" /\ \A q \in Slots : q < r => net[q].pc # "idle"

NextPool ==
  \/ \E r \in Slots, req \in Requests : FreeSlot(r) /\ HandlerBegin(r, req)
  \/ \E r \in Slots, out \in UpstreamOutcomes : HandlerUpstream(r, out)

SpecPool == InitPool /\ [][NextPool]_vars

\* -------------------------------------- specification: the user interface,
\* the facade and the handler together
MsgNotConfigured == "API not configured. Please check your API keys."

\* what the model answers in this specification: a JSON text, an empty text,
\* a quota error and an error that is not about the key
E2EOutcomes ==
  {out \in UpstreamOutcomes :
     \/ out.kind = "text" /\ out.text \in {"json", ""}
     \/ out.kind = "reject" /\ out.msg \in {MsgQuota, MsgNetwork}}

\* checkAPIStatus has failed: the status it returns instead
StatusUnavailable == statusOf(0, {})

\* checkStatus of the App: GET /gemini/status, then setApiStatus
PollStatus(okay) ==
  /\ IF okay
       THEN LET h == handlerBegin(Request("GET", TRUE, FALSE, "none"), currentIndex,
                                  failedKeys, keyUsage, apiKeys) IN
            /\ apiStatus' = h.resp.status
            /\ currentIndex' = h.cur
            /\ failedKeys' = h.failed
            /\ keyUsage' = h.usage
       ELSE /\ apiStatus' = StatusUnavailable
            /\ UNCHANGED <<currentIndex, failedKeys, keyUsage>>
  /\ Unobserved
  /\ UNCHANGED <<uiError, clock, cache, timers, call, started, stored, apiKeys, net,
                 histVars>>

\* handleAnalyze of the App: the status gate, then analyzeCode and generateTrace
HandleAnalyze(c, code, lang) ==
  /\ ready(c, "idle")
  /\ started < MaxStarted
  /\ started' = started + 1
  /\ IF apiStatus = NoStatus \/ apiStatus.activeKeys = 0
       THEN /\ uiError' = MsgNotConfigured
            /\ Unobserved
            /\ UNCHANGED <<call, cache>>
       ELSE /\ uiError' = MsgNone
            /\ Begin(c, beginFrom("analyze", code, lang, StrEmpty, TRUE, cache, stored))
  /\ UNCHANGED <<apiStatus, clock, timers, stored, serverVars>>

\* handleSend of the chat panel: askQuestion, with no gate
HandleSend(c, code, lang, q) ==
  /\ ready(c, "idle")
  /\ started < MaxStarted
  /\ started' = started + 1
  /\ Begin(c, beginFrom("chat", code, lang, q, FALSE, cache, stored))
  /\ UNCHANGED <<clock, timers, stored, serverVars, uiVars>>

\* the POST of call c reaches the handler, which runs up to its await of the
\* model or to an early response (which then settles the fetch)
Arrive(c) ==
  /\ ready(c, "fetching")
  /\ TotalUse < MaxUse
  /\ LET h == handlerBegin(Request("POST", FALSE, TRUE, call[c].op), currentIndex,
                           failedKeys, keyUsage, apiKeys) IN
     /\ currentIndex' = h.cur
     /\ failedKeys' = h.failed
     /\ keyUsage' = h.usage
     /\ UNCHANGED histVars
     /\ IF h.awaiting
          THEN /\ call' = [call EXCEPT ![c].pc = "serving", ![c].index = h.sel.index]
               /\ Unobserved
               /\ UNCHANGED <<cache, timers, stored>>
          ELSE Continue(c, h.resp)
  /\ UNCHANGED <<apiKeys, net, clock, started, uiVars>>

\* generateContent settles for call c: the handler responds and the fetch of
\* the call settles with that response
Settle(c, out) ==
  /\ ready(c, "serving")
  /\ LET h == handlerSettle(call[c].op, call[c].index, out, failedKeys, apiKeys) IN
     /\ failedKeys' = h.failed
     /\ UNCHANGED histVars
     /\ Continue(c, h.resp)
  /\ UNCHANGED <<apiKeys, currentIndex, keyUsage, net, clock, started, uiVars>>

\* the POST of call c never reaches the handler: fetch rejects
TransportFail(c) ==
  /\ ready(c, "fetching")
  /\ Continue(c, NetworkFailure)
  /\ UNCHANGED <<clock, started, serverVars, uiVars>>

NextE2E ==
  \/ \E okay \in BOOLEAN : PollStatus(okay)
  \/ \E code \in Codes, lang \in Languages : HandleAnalyze(Caller, code, lang)
  \/ \E code \in Codes, lang \in Languages, q \in Questions :
       HandleSend(Caller, code, lang, q)
  \/ Arrive(Caller)
  \/ \E out \in E2EOutcomes : Settle(Caller, out)
  \/ TransportFail(Caller)
  \/ BackoffEnd(Caller)

InitE2E ==
  /\ apiKeys \in 0..MaxE2EKeys
  /\ currentIndex = 0
  /\ failedKeys = {}
  /\ keyUsage = [i \in 0..(apiKeys - 1) |-> 0]
  /\ net = [r \in Slots |-> IdleSlot]
  /\ lastSel = NoSel
  /\ streak = <<>>
  /\ justFailed = NoIndex
  /\ revived = NoRevived
  /\ InitClientSide

SpecE2E == InitE2E /\ [][NextE2E]_vars

\* the facade and the handler together, without the user interface: every
\* request reaches the handler
NextDispatch ==
  \/ \E op \in Ops, code \in Codes, lang \in Languages, q \in Questions :
       Call(Caller, op, code, lang, q)
  \/ Arrive(Caller)
  \/ \E out \in E2EOutcomes : Settle(Caller, out)
  \/ BackoffEnd(Caller)

SpecDispatch == InitE2E /\ [][NextDispatch]_vars

\* one facade call served by the handler while other requests, whose callers
\* are not followed, are served by the same pool
NextShared ==
  \/ NextDispatch
  \/ \E r \in Slots, action \in Actions :
       FreeSlot(r) /\ HandlerBegin(r, Request("POST", FALSE, TRUE, action))
  \/ \E r \in Slots, out \in E2EOutcomes : HandlerUpstream(r, out)

SpecShared == InitE2E /\ [][NextShared]_vars

\* two facade calls served by the handler side by side; the model answers
\* with a JSON text or with a quota error
Waiter == 1
Other == 2

BackoffOutcomes ==
  {out \in UpstreamOutcomes :
     \/ out.kind = "text" /\ out.text = "json"
     \/ out.kind = "reject" /\ out.msg = MsgQuota}

NextBackoff ==
  \/ \E c \in {Waiter, Other}, code \in Codes, lang \in Languages, q \in Questions :
       Call(c, "chat", code, lang, q)
  \/ \E c \in {Waiter, Other} : Arrive(c)
  \/ \E c \in {Waiter, Other}, out \in BackoffOutcomes : Settle(c, out)
  \/ \E c \in {Waiter, Other} : BackoffEnd(c)

SpecBackoff == InitE2E /\ [][NextBackoff]_vars

\* the pool and its handler, with the status poll of the App as one client
NextStatus ==
  \/ NextPool
  \/ \E okay \in BOOLEAN : PollStatus(okay)

SpecStatus == InitPool /\ [][NextStatus]_vars

\* ================================================================= claims

\* C1: round-robin fairness. While no key is marked failed, any N consecutive
\* successful getNextKey calls (streak holds the last N at most) return
\* pairwise different indices.
C1_RoundRobinFairness ==
  \A i, j \in 1..Len(streak) : i # j => streak[i] # streak[j]

C1_Witness == apiKeys >= 2 /\ Len(streak) = apiKeys

\* C2: global reset on exhaustion. A getNextKey call made when every index of
\* a non-empty pool is in failedKeys returns a key, and failedKeys is empty as
\* the call returns.
C2_GlobalReset ==
  (lastSel.called /\ apiKeys >= 1 /\ lastSel.pre = Indices)
    => (lastSel.found /\ lastSel.index \in Indices /\ lastSel.post = {})

C2_Witness == lastSel.called /\ apiKeys >= 2 /\ lastSel.pre = Indices /\ lastSel.found

\* C3: a failed credential is never handed out. The index getNextKey returns
\* was not in failedKeys at the call, unless every index was.
C3_FailedNeverSelected ==
  (lastSel.called /\ lastSel.found)
    => (lastSel.index \notin lastSel.pre \/ lastSel.pre = Indices)

C3_Witness ==
  /\ lastSel.called /\ lastSel.found
  /\ lastSel.pre # {} /\ lastSel.pre # Indices
  /\ lastSel.examined >= 2

\* C4: markKeyFailed(i) followed at once by markKeySuccess(i) leaves i out of
\* failedKeys, and a sweep can return i with no global reset.
C4_FailThenSuccessEligible ==
  revived.index # NoIndex =>
    /\ revived.index \notin failedKeys
    /\ \E c \in Indices :
         LET k == getNextKey(c, failedKeys, apiKeys) IN
         k.found /\ k.index = revived.index /\ k.resets = 0

C4_Witness == revived.index # NoIndex /\ revived.selected /\ apiKeys >= 2

\* C5: getNextKey returns null exactly when the pool holds no key.
C5_NullIffEmpty ==
  lastSel.called => (~lastSel.found <=> apiKeys = 0)

C5_Witness == lastSel.called /\ ~lastSel.found

\* C6: no deadlock on exhaustion. With at least one key configured and the
\* status of the pool loaded from the server, a handleAnalyze made when every
\* key is marked failed is not turned away: it goes on to the facade, hence to
\* getNextKey and its reset.
C6_NoDeadlockOnExhaustion ==
  [][(/\ apiKeys >= 1
      /\ failedKeys = Indices
      /\ apiStatus.totalKeys = apiKeys
      /\ \E code \in Codes, lang \in Languages : HandleAnalyze(Caller, code, lang))
       => uiError' # MsgNotConfigured]_vars

\* C7: cache round-trip with per-entry TTL. A get of a key that was set with
\* some ttl returns the stored value while its age is at most that ttl, and
\* null once its age is beyond it (askQuestion passes 5 minutes).
C7_RoundTripPerEntryTTL ==
  (lastGet.called /\ lastGet.had) =>
    /\ (lastGet.age <= lastGet.ttl => lastGet.result = lastGet.sdata)
    /\ (lastGet.age > lastGet.ttl => lastGet.result = Null)

\* C8: a facade call that starts after an identical call has returned, within
\* the TTL window of what that call stored, issues no fetch.
C8_SecondCallFromCache ==
  /\ \A c \in Calls : call[c].expectHit => call[c].fetches = 0
  /\ lastDone.expectHit => lastDone.fetches = 0

\* C9: with retries = 3, the outcomes 429, 429, success make fetchWithRetry
\* return after exactly three fetches (having waited 1000 and 2000 ms); no call
\* ends after the two rate limits alone, and no call goes on after a
\* successful response.
C9_TwoRateLimitsThenSuccess ==
  /\ lastDone.seen # <<"429", "429">>
  /\ lastDone.seen = <<"429", "429", "ok">> =>
       /\ lastDone.fetched = "returned"
       /\ lastDone.fetches = 3
       /\ lastDone.waits = <<waitTime(0), waitTime(1)>>
  /\ \A c \in Calls : \A i \in 1..Len(call[c].seen) : call[c].seen[i] # "ok"

C9_Witness ==
  /\ lastDone.seen = <<"429", "429", "ok">>
  /\ lastDone.fetched = "returned"
  /\ lastDone.payload = Value("string", "json")

\* C10: with two keys and every model call failing as quota-exhausted, the
\* facade call ends in an error delivered to its caller, never in a returned
\* value.
C10_ExhaustedPoolNeverSucceeds ==
  (/\ apiKeys = 2
   /\ lastDone.op # "none"
   /\ Len(lastDone.seen) > 0
   /\ \A i \in 1..Len(lastDone.seen) : lastDone.seen[i] = "quota")
    => lastDone.outcome = "threw"

\* C11: with no key configured a request fails at once with the no-credentials
\* error: the handler's answer ends the facade call, which makes no further
\* attempt and waits for no backoff (no call is in flight having already got
\* the handler's error), and its one fetch is the only one.
C11_NoKeysFailsAtOnce ==
  apiKeys = 0 =>
    /\ \A c \in Calls : \A i \in 1..Len(call[c].seen) : call[c].seen[i] # "error"
    /\ ("error" \in {lastDone.seen[i] : i \in 1..Len(lastDone.seen)}) =>
         (lastDone.fetches = 1 /\ lastDone.waits = <<>>)

\* C12: bounded retries. Whatever retries >= 1 and whatever the settlings,
\* fetchWithRetry makes at most retries fetches (one per attempt) and ends:
\* it returns, or throws after the last attempt the error of that attempt
\* (never "Max retries exceeded"); a call in flight always comes to its end.
C12_InFlightBound ==
  \A c \in Calls : call[c].pc # "idle" =>
    /\ call[c].attempt < call[c].retries
    /\ call[c].fetches = call[c].attempt + 1
    /\ Len(call[c].waits) = call[c].attempt + (IF call[c].pc = "backoff" THEN 1 ELSE 0)
    /\ call[c].pc = "backoff" => call[c].attempt < call[c].retries - 1

C12_EndBound ==
  lastDone.fetched # "none" =>
    /\ lastDone.fetches <= lastDone.retries
    /\ lastDone.fetches = Len(lastDone.seen)
    /\ lastDone.fetched = "threw" =>
         /\ lastDone.fetches = lastDone.retries
         /\ LET last == lastDone.seen[Len(lastDone.seen)] IN
            /\ lastDone.error # MsgMaxRetries
            /\ last = "network" => lastDone.error = MsgNetwork
            /\ last = "quota" => lastDone.error = MsgClientQuota
            /\ last = "429" => lastDone.error = MsgRequestFailed

C12_BoundedRetries ==
  /\ [](C12_InFlightBound /\ C12_EndBound)
  /\ (call[Caller].pc # "idle") ~> (call[Caller].pc = "idle")

C12_Witness ==
  /\ lastDone.fetched = "threw"
  /\ lastDone.retries = MaxRetries
  /\ lastDone.fetches = MaxRetries

\* C13: the cache holds only results of successful dispatches. When
\* fetchWithRetry throws, the facade call throws too, and no cached value is a
\* placeholder made up by the facade.
C13_CacheOnlySuccesses ==
  lastDone.fetched = "threw" =>
    /\ lastDone.outcome = "threw"
    /\ lastDone.value = Null
    /\ \A k \in DOMAIN cache : cache[k].data # ClientFallback

\* C14: status is read-only. A status poll that reaches the handler leaves
\* currentIndex, failedKeys and keyUsage as they were, and so does every GET
\* .../status request handled.
C14_StatusReadOnly ==
  [][((\E okay \in BOOLEAN : PollStatus(okay))
       \/ (\E r \in Slots : HandlerBegin(r, Request("GET", TRUE, FALSE, "none"))))
      => UNCHANGED <<currentIndex, failedKeys, keyUsage, lastSel>>]_vars

C14_Witness ==
  /\ apiKeys >= 2
  /\ apiStatus.totalKeys = apiKeys
  /\ apiStatus.failedKeys >= 1
  /\ apiStatus.failedKeys = Cardinality(failedKeys)

\* C15: reportSuccess bookkeeping. The step in which the handler reports a
\* success for key i (markKeySuccess) leaves i out of failedKeys and adds one
\* to i's use count, and no other step changes a use count: a key's count is
\* the number of successes reported for it.
C15_SuccessCountsUse ==
  [][/\ \A r \in Slots :
          (\E out \in UpstreamOutcomes : out.kind = "text" /\ HandlerUpstream(r, out))
            => /\ net[r].index \notin failedKeys'
               /\ keyUsage'[net[r].index] = keyUsage[net[r].index] + 1
     /\ keyUsage' # keyUsage =>
          \E r \in Slots, out \in UpstreamOutcomes :
            out.kind = "text" /\ HandlerUpstream(r, out)]_vars

\* C16: two calls of the same facade operation with the same fingerprint do
\* not both perform the upstream call: no two calls are in flight under one
\* cache key.
C16_OneFetchPerFingerprint ==
  \A c1, c2 \in Calls :
    (c1 # c2 /\ call[c1].pc # "idle" /\ call[c2].pc # "idle")
      => call[c1].key # call[c2].key

\* C17: getCacheKey does not collide across operation kinds: a lookup that
\* finds an entry finds one stored by a request of the same operation (and
\* equal requests are looked up under equal keys).
C17_NoCrossOperationKey ==
  /\ (lastGet.called /\ lastGet.had) => lastGet.req.op = lastGet.sreq.op
  /\ \A k \in DOMAIN stored :
       LET r == stored[k].req IN k = getCacheKey(methodName(r.op), r.code, r.lang, r.q)

\* C18: the fingerprint covers operation, code, language, question and, for
\* chat, the conversation history: a lookup by a request finds only an entry
\* stored by a request equal to it in all of these fields.
C18_FingerprintCoversRequest ==
  (lastGet.called /\ lastGet.had /\ lastGet.req.op = lastGet.sreq.op)
    => lastGet.req = lastGet.sreq

\* C19: after a quota-exhausted answer the key used is in failedKeys, and the
\* next attempt of the same request starts without a backoff wait: no call
\* sits in backoff after a quota answer.
C19_QuotaRetriesWithoutBackoff ==
  \A c \in Calls :
    (Len(call[c].seen) > 0 /\ call[c].seen[Len(call[c].seen)] = "quota")
      => /\ failedKeys # {}
         /\ call[c].pc # "backoff"

\* C20: when the model call fails with an error that carries no rate-limit,
\* quota, permission or API-key signal, the handler leaves failedKeys as it
\* was, and the facade call waits delay * 2^attempt and tries again (unless
\* that was its last attempt).
C20_NetworkFailureKeepsKey ==
  [][\A c \in Calls :
       (\E out \in E2EOutcomes :
          out.kind = "reject" /\ out.msg = MsgNetwork /\ Settle(c, out))
         => /\ failedKeys' = failedKeys
            /\ IF call[c].attempt < call[c].retries - 1
                 THEN /\ call'[c].pc = "backoff"
                      /\ call'[c].waits = Append(call[c].waits, waitTime(call[c].attempt))
                      /\ call'[c].attempt = call[c].attempt
                 ELSE call'[c].pc # "backoff"]_vars

C20_Witness ==
  /\ apiKeys >= 2
  /\ failedKeys # {}
  /\ call[Caller].pc = "backoff"
  /\ call[Caller].seen = <<"quota", "error">>
  /\ call[Caller].waits = <<waitTime(0), waitTime(1)>>
  /\ Cardinality(failedKeys) = 1

\* C21: when an attempt of a request was rate-limited on credential i, the
\* next attempt of that request is served with a credential other than i,
\* whatever the other requests do in between (pools of two or more keys).
C21_RetryUsesAnotherKey ==
  \A c \in Calls :
    (call[c].pc = "serving" /\ call[c].limitedOn # NoIndex /\ apiKeys >= 2)
      => call[c].index # call[c].limitedOn

\* C22: the backoff schedule of fetchWithRetry. The wait that follows the
\* failed attempt with zero-based index a is delay * 2^a (1000, 2000, ... ms),
\* only attempts before the last one are followed by a wait, so that a call
\* waits at most retries - 1 times and never after its final attempt.
C22_BackoffSchedule ==
  /\ \A c \in Calls :
       LET w == call[c].waits IN
       /\ Len(w) <= call[c].retries - 1
       /\ \A k \in 1..Len(w) : w[k] = Delay * 2^(k - 1)
       /\ call[c].pc = "backoff" => Len(w) = call[c].attempt + 1
  /\ lastDone.fetched # "none" =>
       /\ Len(lastDone.waits) <= lastDone.retries - 1
       /\ Len(lastDone.waits) = lastDone.fetches - 1
       /\ \A k \in 1..Len(lastDone.waits) : lastDone.waits[k] = Delay * 2^(k - 1)

C22_Witness ==
  /\ lastDone.fetched = "threw"
  /\ lastDone.retries = 4
  /\ lastDone.waits = <<1000, 2000, 4000>>

\* C23: a malformed response. When the model answers an analyze or trace
\* request with a text that cannot be parsed, the key is recorded as
\* successful (it leaves failedKeys), the request is not retried, and the
\* caller receives an error outcome rather than a value.
C23_MalformedResponseIsError ==
  [][\A c \in Calls :
       (\E out \in E2EOutcomes :
          /\ out.kind = "text" /\ out.text # "json"
          /\ call[c].op \in {"analyze", "trace"}
          /\ Settle(c, out))
         => /\ failedKeys' = failedKeys \ {call[c].index}
            /\ call'[c].pc = "idle"
            /\ lastDone'.outcome = "threw"]_vars

\* C24: the classification of a final failure. The error that fetchWithRetry
\* hands to its caller is of the exhausted kind exactly when the status
\* snapshot attached to the failing response shows every configured key
\* failed (failedKeys = totalKeys, totalKeys >= 1); without keys or without a
\* snapshot the error is of another kind.
C24_ExhaustedIffSnapshotFull ==
  [][\A c \in Calls : \A out \in E2EOutcomes :
       (Settle(c, out) /\ lastDone'.fetched = "threw")
         => LET snap == handlerSettle(call[c].op, call[c].index, out, failedKeys,
                                      apiKeys).resp.status IN
            (lastDone'.error = MsgClientQuota)
              <=> /\ snap # NoStatus
                  /\ snap.totalKeys >= 1
                  /\ snap.failedKeys = snap.totalKeys]_vars

\* C25: a backoff wait suspends only the call that waits. While one call of
\* fetchWithRetry waits, another call can start (reading the cache), can be
\* given a key by getNextKey and can settle (writing the cache and ending),
\* and none of these steps ends or alters the wait of the first.
C25_OthersCanRun ==
  \A w, c \in {Waiter, Other} :
    (w # c /\ call[w].pc = "backoff") =>
      /\ call[c].pc = "idle" => ready(c, "idle")
      /\ (call[c].pc = "fetching" /\ TotalUse < MaxUse) => ENABLED Arrive(c)
      /\ call[c].pc = "serving" => \A out \in BackoffOutcomes : ENABLED Settle(c, out)

C25_WaitUntouched ==
  [][\A w, c \in {Waiter, Other} :
       (/\ w # c
        /\ call[w].pc = "backoff"
        /\ \/ Arrive(c)
           \/ \E out \in BackoffOutcomes : Settle(c, out)
           \/ \E code \in Codes, lang \in Languages, q \in Questions :
                Call(c, "chat", code, lang, q))
         => call'[w] = call[w]]_vars

C25_WaitSuspendsOnlyWaiter == []C25_OthersCanRun /\ C25_WaitUntouched

C25_Witness ==
  /\ call[Waiter].pc = "backoff"
  /\ call[Waiter].waits = <<waitTime(0)>>
  /\ lastDone.op = "chat" /\ lastDone.outcome = "returned" /\ lastDone.fetches = 1
  /\ TotalUse = 2
  /\ DOMAIN cache # {}

\* C26: eventual eviction. An entry stored by CacheManager.set is removed by
\* the cleanup timer that set scheduled, so an entry still in the map has its
\* timer pending even if nobody reads the key; and an entry read after its
\* ttl has elapsed is removed by that read.
C26_EventualEviction ==
  /\ \A k \in DOMAIN cache :
       \E t \in timers :
         t.key = k /\ t.due - cache[k].timestamp \in {ChatTTL, DefaultTTL}
  /\ (lastGet.called /\ lastGet.had /\ lastGet.age > lastGet.ttl)
       => keyOf(lastGet.req.op, lastGet.req.code, lastGet.req.lang, lastGet.req.q)
            \notin DOMAIN cache

\* C27: CacheManager.set overwrites unconditionally and touches no other key;
\* a get within the TTL of the latest set of a key returns the value of that
\* set; clear() empties the map, and a key not set since then is a miss.
C27_SetStored ==
  [][\A c \in Calls :
       (call[c].pc # "idle" /\ lastDone'.outcome = "returned" /\ lastDone'.fetches > 0)
         => /\ call[c].key \in DOMAIN cache'
            /\ cache'[call[c].key].data = lastDone'.value
            /\ \A j \in DOMAIN cache \ {call[c].key} :
                 j \in DOMAIN cache' /\ cache'[j] = cache[j]]_vars

C27_ClearEmpties == [][ClearCache => cache' = EmptyCache]_vars

C27_GetAfterSet ==
  /\ (lastGet.called /\ lastGet.had /\ lastGet.age <= lastGet.ttl)
       => lastGet.result = lastGet.sdata
  /\ (lastGet.called /\ ~lastGet.had) => lastGet.result = Null

C27_SetOverwritesClearEmpties == C27_SetStored /\ C27_ClearEmpties /\ []C27_GetAfterSet

\* C28: getNextKey terminates with bounded work. With N >= 1 keys one call
\* returns a key, looks at no more than N candidates in a sweep, clears
\* failedKeys (and calls itself again) at most once, and so looks at no more
\* than 2N candidates in all, whatever failedKeys holds.
C28_GetNextKeyBounded ==
  (lastSel.called /\ apiKeys >= 1) =>
    /\ lastSel.found
    /\ lastSel.resets <= 1
    /\ lastSel.resets = 0 => lastSel.examined <= apiKeys
    /\ lastSel.examined <= 2 * apiKeys

C28_Witness ==
  /\ lastSel.called /\ apiKeys >= 2
  /\ lastSel.resets = 1
  /\ lastSel.examined = apiKeys + 1

\* C29: the cursor invariant. With N >= 1 keys the cursor is always a valid
\* index, 0 <= currentIndex < N, and once getNextKey has returned index i the
\* cursor is i: it points at the credential selected last.
C29_CursorInvariant ==
  /\ apiKeys >= 1 => currentIndex \in 0..(apiKeys - 1)
  /\ (lastSel.called /\ lastSel.found) => currentIndex = lastSel.index

C29_Witness ==
  /\ lastSel.called /\ lastSel.found
  /\ apiKeys >= 2
  /\ lastSel.index = 0
  /\ TotalUse >= 2

\* C30: the status snapshot is consistent. In every reachable state getStatus
\* reports totalKeys = N, failedKeys = the size of the failed set and
\* activeKeys = totalKeys - failedKeys, with 0 <= failedKeys <= totalKeys and
\* activeKeys >= 0; marking a key failed leaves totalKeys as it was.
C30_SnapshotNow ==
  LET s == statusOf(apiKeys, failedKeys) IN
  /\ s.totalKeys = apiKeys
  /\ s.failedKeys = Cardinality(failedKeys)
  /\ s.activeKeys = s.totalKeys - s.failedKeys
  /\ 0 <= s.failedKeys /\ s.failedKeys <= s.totalKeys
  /\ s.activeKeys >= 0

C30_MarkKeepsTotal ==
  [][failedKeys' # failedKeys
       => statusOf(apiKeys', failedKeys').totalKeys
            = statusOf(apiKeys, failedKeys).totalKeys]_vars

C30_StatusConsistent == []C30_SnapshotNow /\ C30_MarkKeepsTotal

C30_Witness ==
  /\ apiKeys = 2
  /\ justFailed # NoIndex
  /\ statusOf(apiKeys, failedKeys) = [totalKeys |-> 2, activeKeys |-> 0, failedKeys |-> 2]

\* C31: markKeyFailed and markKeySuccess are idempotent. Applied twice in a
\* row to the same index, either leaves failedKeys as one application does,
\* also when the handler applies it for two invocations that hold the same
\* key; neither touches currentIndex or keyUsage.
C31_TwiceIsOnce ==
  /\ \A i \in Indices :
       /\ markKeyFailed(markKeyFailed(failedKeys, i), i) = markKeyFailed(failedKeys, i)
       /\ markKeySuccess(markKeySuccess(failedKeys, i), i) = markKeySuccess(failedKeys, i)
  /\ \A r \in Slots, out \in UpstreamOutcomes :
       net[r].pc = "upstream" =>
         LET once == handlerSettle(net[r].action, net[r].index, out, failedKeys, apiKeys)
             twice == handlerSettle(net[r].action, net[r].index, out, once.failed, apiKeys)
         IN twice.failed = once.failed

C31_MarksKeepCursor ==
  [][(\E r \in Slots : net[r].pc = "upstream" /\ net'[r].pc = "idle")
       => currentIndex' = currentIndex /\ keyUsage' = keyUsage]_vars

C31_MarksIdempotent == []C31_TwiceIsOnce /\ C31_MarksKeepCursor

C31_Witness ==
  \E r \in Slots :
    /\ net[r].pc = "upstream"
    /\ net[r].index = justFailed
    /\ justFailed \in failedKeys

\* C32: a request that the handler answers as OPTIONS or rejects with a 4xx
\* response (405, 400 missing fields, 400 invalid action) consumes no
\* credential: currentIndex, failedKeys and keyUsage are left as they were.
C32_RejectedConsumesNoKey ==
  [][\A r \in Slots, req \in Requests :
       (/\ HandlerBegin(r, req)
        /\ LET h == handlerBegin(req, currentIndex, failedKeys, keyUsage, apiKeys) IN
           \/ req.method = "OPTIONS"
           \/ (~h.awaiting /\ h.resp.code >= 400 /\ h.resp.code <= 499))
         => UNCHANGED <<currentIndex, failedKeys, keyUsage>>]_vars

\* C33: a cleanup timer of an earlier set never removes an entry that is still
\* fresh: whatever the order of sets, timer firings and clock ticks, an entry
\* whose age is at most its ttl leaves the map only through clear().
C33_FreshEntryOnlyCleared ==
  [][(\E k \in DOMAIN cache :
        /\ k \in DOMAIN stored
        /\ clock - cache[k].timestamp <= stored[k].ttl
        /\ k \notin DOMAIN cache')
       => ClearCache]_vars

\* C34: fetchWithRetry retries only 429 responses and transport failures. A
\* response with any other error status (a 400, or an error that makes it
\* throw the quota error) ends the call with that attempt: the error goes to
\* the caller, no further fetch is made and no backoff wait is inserted.
C34_OtherErrorsNotRetried ==
  [][\A c \in Calls, resp \in HttpOutcomes :
       (FetchSettle(c, resp) /\ classify(resp) \in {"quota", "error"})
         => /\ call'[c].pc = "idle"
            /\ lastDone'.fetched = "threw"
            /\ lastDone'.fetches = call[c].fetches
            /\ lastDone'.waits = call[c].waits]_vars

\* C35: round-robin order survives a global reset. A getNextKey call that
\* finds every key failed and resets returns the cyclic successor of the key
\* returned by the previous selection, (currentIndex + 1) mod N: the key a
\* sweep without failures would have returned.
C35_OrderSurvivesReset ==
  [][(keyUsage' # keyUsage /\ lastSel'.called /\ lastSel'.resets = 1)
       => /\ lastSel'.index = (currentIndex + 1) % apiKeys
          /\ lastSel'.index = getNextKeyRec(currentIndex, {}, apiKeys, 0, 0).index
          /\ lastSel.found => lastSel'.index = (lastSel.index + 1) % apiKeys
          /\ currentIndex' = lastSel'.index]_vars

C35_Witness ==
  /\ lastSel.called /\ lastSel.resets = 1
  /\ apiKeys = 2
  /\ lastSel.index = 1
  /\ currentIndex = 1

\* C36: failedKeys is well formed under interleaved requests. In every
\* reachable state failedKeys holds only indices of configured keys, and only
\* keys that have been selected at least once (keyUsage count >= 1), also
\* when a failure is reported late, after a global reset.
C36_FailedSetWellFormed ==
  /\ failedKeys \subseteq Indices
  /\ \A i \in failedKeys : keyUsage[i] >= 1

C36_Witness ==
  /\ lastSel.called /\ lastSel.resets = 1
  /\ justFailed # NoIndex /\ justFailed # lastSel.index
  /\ failedKeys = {justFailed}
  /\ \E r \in Slots : net[r].pc = "upstream" /\ net[r].index = lastSel.index

====
